---------------------------- MODULE Spec2Model ----------------------------
(***************************************************************************)
(* A model of skyfield/positionlib.py: the Position classes (ICRS,         *)
(* Barycentric, Astrometric, Apparent, Geocentric), the Topos observer     *)
(* location, and the observation pipeline built from them.                 *)
(*                                                                         *)
(* Numbers.  Every real quantity is an exact rational held as an integer   *)
(* numerator over a fixed denominator:                                     *)
(*   - sines and cosines are numerators over 5 (the angles used are those  *)
(*     whose sine and cosine are multiples of 1/5: the multiples of 90     *)
(*     degrees and the angles of the 3-4-5 triangle);                      *)
(*   - angles are integers in hundredths of a degree;                      *)
(*   - Topos unit vectors are numerators over 25, the sidereal spin        *)
(*     matrix over 5, the alt-az rotation over 125;                        *)
(*   - pressures are in units of 1/100000 mbar, exp() is scaled by 100000. *)
(*                                                                         *)
(* Objects.  Python objects live in heaps: `arrays` holds the numpy        *)
(* arrays (so that aliasing and in-place mutation are visible), `heap`     *)
(* the Position objects (their attributes refer to arrays, to other        *)
(* Positions and to Toposes by index), `toposes` the Topos objects.        *)
(* Index 0 stands for None or for an attribute that was never set, as      *)
(* each field's comment says.                                              *)
(***************************************************************************)
EXTENDS Integers, Sequences, FiniteSets, TLC

VARIABLES toposes, heap, arrays, last

vars == <<toposes, heap, arrays, last>>

---------------------------------------------------------------------------
(* Bounds of the model *)

MaxPositions == 3
MaxToposes == 1

---------------------------------------------------------------------------
(* Vectors and matrices (numpy array arithmetic, einsum) *)

VAdd(a, b) == <<a[1] + b[1], a[2] + b[2], a[3] + b[3]>>

VSub(a, b) == <<a[1] - b[1], a[2] - b[2], a[3] - b[3]>>

VNeg(a) == <<-a[1], -a[2], -a[3]>>

VScale(k, a) == <<k * a[1], k * a[2], k * a[3]>>

Dot(a, b) == a[1] * b[1] + a[2] * b[2] + a[3] * b[3]

\* einsum('ij...,j...->i...', m, v)
MatVec(m, v) == <<Dot(m[1], v), Dot(m[2], v), Dot(m[3], v)>>

Col(m, k) == <<m[1][k], m[2][k], m[3][k]>>

\* array([...]).T, and the MT of a time
Transpose(m) == <<Col(m, 1), Col(m, 2), Col(m, 3)>>

\* einsum('ij...,jk...->ik...', a, b)
MatMul(a, b) ==
    << <<Dot(a[1], Col(b, 1)), Dot(a[1], Col(b, 2)), Dot(a[1], Col(b, 3))>>,
       <<Dot(a[2], Col(b, 1)), Dot(a[2], Col(b, 2)), Dot(a[2], Col(b, 3))>>,
       <<Dot(a[3], Col(b, 1)), Dot(a[3], Col(b, 2)), Dot(a[3], Col(b, 3))>> >>

\* einsum('ij...,jk...->ki...', a, b)
MatMulT(a, b) == Transpose(MatMul(a, b))

---------------------------------------------------------------------------
(* Trigonometry on the angles whose sine and cosine are multiples of 1/5 *)

\* <<5 sin a, 5 cos a>> for a in hundredths of a degree
SinCos5(a) ==
    CASE a = 0      -> <<0, 5>>
      [] a = 3687   -> <<3, 4>>
      [] a = 5313   -> <<4, 3>>
      [] a = 9000   -> <<5, 0>>
      [] a = 12687  -> <<4, -3>>
      [] a = 14313  -> <<3, -4>>
      [] a = 18000  -> <<0, -5>>
      [] a = 27000  -> <<-5, 0>>
      [] a = -3687  -> <<-3, 4>>
      [] a = -5313  -> <<-4, 3>>
      [] a = -9000  -> <<-5, 0>>
      [] a = -12687 -> <<-4, -3>>
      [] a = -14313 -> <<-3, -4>>
      [] a = -18000 -> <<0, -5>>

sin(a) == SinCos5(a)[1]

cos(a) == SinCos5(a)[2]

ValidLatitudes == {-9000, -5313, -3687, 0, 3687, 5313, 9000}

ValidLongitudes ==
    {-18000, -14313, -12687, -9000, -5313, -3687, 0,
     3687, 5313, 9000, 12687, 14313, 18000}

---------------------------------------------------------------------------
(* Time reference (timelib.JulianDate): a time is its terrestrial time tt, *)
(* a positive integer.  0 is None.                                         *)

Times == {1, 2}

\* jd.gast, in hours
gast(t) == IF t = 1 THEN 6 ELSE 12

\* jd.tdb
tdb(t) == t

\* jd.M: a rotation, different at each time and never the identity
M(t) ==
    IF t = 1 THEN << <<0, -1, 0>>, <<1, 0, 0>>, <<0, 0, 1>> >>
             ELSE << <<1, 0, 0>>, <<0, 0, -1>>, <<0, 1, 0>> >>

\* jd.MT
MT(t) == Transpose(M(t))

\* rot_z(theta) with theta = gast * TAU / 24, numerators over 5
rot_z(hours) ==
    LET a == hours * 1500
    IN  << <<cos(a), -sin(a), 0>>,
           <<sin(a), cos(a), 0>>,
           <<0, 0, 5>> >>

---------------------------------------------------------------------------
(* External kernels.  Their code is outside positionlib.py; each is a       *)
(* deterministic function of its arguments, as the interfaces require.     *)

\* earthlib.terra(latitude, longitude, elevation, gast): position and
\* velocity of the location in the Earth-fixed true-equator frame: the
\* location's `up` direction spun by the sidereal angle, at the Earth's
\* radius plus the elevation; the velocity is the Earth's spin crossed
\* with the position.
terra(lat, lon, elevation_m, hours) ==
    LET up0 == <<cos(lat) * cos(lon), cos(lat) * sin(lon), sin(lat) * 5>>
        pos == VScale(64 + (elevation_m \div 4550), MatVec(rot_z(hours), up0))
    IN  <<pos, <<-pos[2], pos[1], 0>> >>

\* ephemeris.earth(jd): the Earth's barycentric position and velocity
earth(t) == << <<100000 * t, 50000, 0>>, <<0, 1000 * t, 0>> >>

\* functions.to_polar(xyz): (r, theta, phi), kept as the exact expressions
\* length(xyz), elevation angle of xyz, azimuth angle of xyz
to_polar(xyz) ==
    << [fn |-> "length_of", xyz |-> xyz],
       [fn |-> "elevation_of", xyz |-> xyz],
       [fn |-> "azimuth_of", xyz |-> xyz] >>

\* relativity.add_deflection(position, observer, ephemeris, tdb, include):
\* the value it leaves in `position`
add_deflection(position, observer, t, include_earth_deflection) ==
    VAdd(position, IF include_earth_deflection THEN <<t, 1, 1>> ELSE <<t, 0, 0>>)

\* relativity.add_aberration(position, velocity, lighttime): the value it
\* leaves in `position`
add_aberration(position, velocity, lighttime) ==
    VAdd(position, VScale(lighttime, velocity))

\* numpy.exp(-elevation_m / 9.1e3), scaled by 100000: the Taylor series of
\* exp in fixed point
RECURSIVE ExpSeries(_, _, _, _)
ExpSeries(num, den, n, term) ==
    IF term = 0 \/ n > 16 THEN 0
    ELSE term + ExpSeries(num, den, n + 1, (term * num) \div (den * n))

\* 1010.0 * exp(-elevation_m / 9.1e3), in 1/100000 mbar
StandardPressure(elevation_m) == 1010 * ExpSeries(-elevation_m, 9100, 1, 100000)

---------------------------------------------------------------------------
(* Objects *)

\* ICRS.__init__: a new Position object of class cls.
\*   position, velocity: indices into arrays (velocity 0: None)
\*   jd: a time, or 0 for None
\*   geocentric: the class attribute, True until an instance sets it
\*   observer: index into heap; topos: index into toposes; rGCRS, vGCRS:
\*     indices into arrays (0: the attribute was never set)
\*   altaz_rotation: a matrix (<<>>: never set); lighttime (-1: never
\*     set); ephemeris (FALSE: never set)
\*   origin: not an attribute but the object's history, <<the call that
\*     returned it, its first operand, its second operand>>
ICRS(cls, position, velocity, jd) ==
    [cls |-> cls, position |-> position, velocity |-> velocity, jd |-> jd,
     geocentric |-> TRUE, observer |-> 0, topos |-> 0, altaz_rotation |-> <<>>,
     lighttime |-> -1, ephemeris |-> FALSE, rGCRS |-> 0, vGCRS |-> 0,
     origin |-> <<"", 0, 0>>]

\* obj, with its history written down
Made(obj, op, x, y) == [obj EXCEPT !.origin = <<op, x, y>>]

\* What the last call was, what it was given, and what came of it.
\*   exc: the exception raised ("" if it returned); ret: the Position it
\*   returned (0: none); limb, include: the limb angle and the
\*   flag handed to add_deflection; topos, R: what altaz resolved (R is also
\*   the matrix radec rotated by); polarIn: the vector handed to to_polar;
\*   refract: the arguments handed to refract; out: the tuple returned.
NoLast ==
    [op |-> "", self |-> 0, arg |-> <<>>, exc |-> "", ret |-> 0, limb |-> -1,
     include |-> "unset", topos |-> 0, R |-> <<>>, polarIn |-> <<>>,
     refract |-> <<>>, out |-> <<>>]

Init ==
    /\ toposes = <<>>
    /\ heap = <<>>
    /\ arrays = <<>>
    /\ last = NoLast

---------------------------------------------------------------------------
(* Topos *)

\* self.up (numerators over 25)
up(lat, lon) == <<cos(lat) * cos(lon), cos(lat) * sin(lon), sin(lat) * 5>>

\* self.north
north(lat, lon) == <<-sin(lat) * cos(lon), -sin(lat) * sin(lon), cos(lat) * 5>>

\* self.west with the sign of its second component lost
west_sign_slip(lat, lon) == <<sin(lon) * 5, cos(lon) * 5, 0>>

\* self.west
west(lat, lon) == <<sin(lon) * 5, -cos(lon) * 5, 0>>

\* Topos.__init__.  Each of latitude and longitude comes as degrees
\* (latitude_degrees=), as an Angle, or not at all ("missing": neither a
\* string nor an Angle), which is a TypeError.  The ephemeris is attached
\* by the code that builds the Topos.
ToposInit(latKind, lat, lonKind, lon, elevation_m) ==
    /\ Len(toposes) < MaxToposes
    /\ IF latKind = "missing" \/ lonKind = "missing"
       THEN /\ last' = [NoLast EXCEPT !.op = "Topos", !.exc = "TypeError"]
            /\ UNCHANGED toposes
       ELSE /\ toposes' = Append(toposes,
                   [latitude |-> lat, longitude |-> lon, elevation |-> elevation_m,
                    up |-> up(lat, lon), north |-> north(lat, lon),
                    west |-> west(lat, lon)])
            /\ last' = [NoLast EXCEPT !.op = "Topos", !.self = Len(toposes) + 1]
    /\ UNCHANGED <<heap, arrays>>

\* Topos._position_and_velocity
position_and_velocity(T, t) ==
    LET pv == terra(T.latitude, T.longitude, T.elevation, gast(t))
    IN  <<MatVec(MT(t), pv[1]), MatVec(MT(t), pv[2])>>

\* Topos._altaz_rotation
altaz_rotation(T, t) ==
    LET spin == rot_z(gast(t))
        u == Transpose(<<T.north, VNeg(T.west), T.up>>)
        spin_u == MatMulT(spin, u)
    IN  MatMul(spin_u, M(t))

\* The annotations Topos.__call__ writes on the Position t it has built
CallAnnotations(t, k, rGCRS, vGCRS, R) ==
    [t EXCEPT !.geocentric = FALSE, !.rGCRS = rGCRS, !.vGCRS = vGCRS,
              !.topos = k, !.ephemeris = TRUE, !.altaz_rotation = R]

\* Topos.__call__
ToposCall(k, t) ==
    /\ k \in DOMAIN toposes
    /\ LET e == earth(t)
           tpv == position_and_velocity(toposes[k], t)
           n == Len(arrays)
           obj == ICRS("Barycentric", n + 3, n + 4, t)
       IN  /\ arrays' = arrays \o <<tpv[1], tpv[2],
                                    VAdd(e[1], tpv[1]), VAdd(e[2], tpv[2])>>
           /\ heap' = Append(heap, Made(CallAnnotations(obj, k, n + 1, n + 2,
                                       altaz_rotation(toposes[k], t)),
                                    "Topos.__call__", k, t))
           /\ last' = [NoLast EXCEPT !.op = "Topos.__call__", !.self = k,
                                     !.arg = t, !.ret = Len(heap) + 1]
    /\ UNCHANGED toposes

\* The annotations Topos.gcrs writes on the Position t it has built
GcrsAnnotations(t, k, R) ==
    [t EXCEPT !.topos = k, !.ephemeris = TRUE, !.altaz_rotation = R]

\* Topos.gcrs
ToposGcrs(k, t) ==
    /\ k \in DOMAIN toposes
    /\ LET tpv == position_and_velocity(toposes[k], t)
           n == Len(arrays)
           obj == ICRS("Geocentric", n + 1, n + 2, t)
       IN  /\ arrays' = arrays \o <<tpv[1], tpv[2]>>
           /\ heap' = Append(heap, Made(GcrsAnnotations(obj, k,
                                       altaz_rotation(toposes[k], t)),
                                    "Topos.gcrs", k, t))
           /\ last' = [NoLast EXCEPT !.op = "Topos.gcrs", !.self = k,
                                     !.arg = t, !.ret = Len(heap) + 1]
    /\ UNCHANGED toposes

---------------------------------------------------------------------------
(* Positions built outside positionlib.py, subtraction, radec *)

\* A Position built by calling code: the constructor ICRS.__init__ on a
\* fresh position array and velocity array (v = <<>>: no velocity), then
\* the attributes that code attaches to its new object: an ephemeris (as
\* the ephemeris does on the Barycentric position of a planet), a topos
\* (k > 0).
Build(cls, p, v, jd, eph, k) ==
    /\ k \in {0} \cup DOMAIN toposes
    /\ LET n == Len(arrays)
           obj == ICRS(cls, n + 1, IF v = <<>> THEN 0 ELSE n + 2, jd)
       IN  /\ arrays' = IF v = <<>> THEN Append(arrays, p) ELSE arrays \o <<p, v>>
           /\ heap' = Append(heap, Made([obj EXCEPT !.ephemeris = eph, !.topos = k],
                                    "Build", 0, 0))
           /\ last' = [NoLast EXCEPT !.op = "Build", !.ret = Len(heap) + 1]
    /\ UNCHANGED toposes

\* ICRS.__sub__: the position of the difference
sub_position(self_p, body_p) == VSub(self_p, body_p)

\* ICRS.__sub__: the velocity of the difference, when both have one
sub_velocity(self_v, body_v) == VSub(body_v, self_v)

\* ICRS.__sub__
Sub(a, b) ==
    /\ a \in DOMAIN heap
    /\ b \in DOMAIN heap
    /\ LET A == heap[a]
           B == heap[b]
           n == Len(arrays)
           noV == A.velocity = 0 \/ B.velocity = 0
           p == sub_position(arrays[A.position], arrays[B.position])
       IN  /\ arrays' = IF noV THEN Append(arrays, p)
                        ELSE arrays \o <<p, sub_velocity(arrays[A.velocity],
                                                         arrays[B.velocity])>>
           /\ heap' = Append(heap,
                  Made(ICRS("ICRS", n + 1, IF noV THEN 0 ELSE n + 2, A.jd),
                       "__sub__", a, b))
           /\ last' = [NoLast EXCEPT !.op = "__sub__", !.self = a, !.arg = b,
                                     !.ret = Len(heap) + 1]
    /\ UNCHANGED toposes

\* The forms an epoch= argument takes: None, a JulianDate (of time tt), a
\* float or an int (a terrestrial time tt), the string "date", another
\* string, another object.
Epoch(kind, tt) == [kind |-> kind, tt |-> tt]

\* ICRS.radec taking any number, int as well as float, as a terrestrial time
radec_epoch_any_number(epoch, jd) ==
    CASE epoch.kind = "None" -> [exc |-> "", t |-> 0]
      [] epoch.kind \in {"JulianDate", "float", "int"} -> [exc |-> "", t |-> epoch.tt]
      [] epoch.kind = "date" ->
            IF jd = 0 THEN [exc |-> "AttributeError", t |-> 0]
                      ELSE [exc |-> "", t |-> jd]
      [] OTHER -> [exc |-> "ValueError", t |-> 0]

\* ICRS.radec, the epoch chain: the exception it raises ("" for none) and
\* the time whose M rotates the position (0: no rotation).
\* An epoch of "date" takes self.jd; when that is None, epoch.M is an
\* AttributeError.
radec_epoch(epoch, jd) ==
    CASE epoch.kind = "None" -> [exc |-> "", t |-> 0]
      [] epoch.kind = "JulianDate" -> [exc |-> "", t |-> epoch.tt]
      [] epoch.kind = "float" -> [exc |-> "", t |-> epoch.tt]
      [] epoch.kind = "date" ->
            IF jd = 0 THEN [exc |-> "AttributeError", t |-> 0]
                      ELSE [exc |-> "", t |-> jd]
      [] OTHER -> [exc |-> "ValueError", t |-> 0]

\* ICRS.radec
Radec(a, epoch) ==
    /\ a \in DOMAIN heap
    /\ LET A == heap[a]
           e == radec_epoch(epoch, A.jd)
           position_AU == IF e.t = 0 THEN arrays[A.position]
                          ELSE MatVec(M(e.t), arrays[A.position])
           polar == to_polar(position_AU)
       IN  last' = IF e.exc # ""
                   THEN [NoLast EXCEPT !.op = "radec", !.self = a, !.arg = epoch,
                                       !.exc = e.exc]
                   ELSE [NoLast EXCEPT !.op = "radec", !.self = a, !.arg = epoch,
                                       !.R = IF e.t = 0 THEN <<>> ELSE M(e.t),
                                       !.polarIn = position_AU,
                                       !.out = <<polar[3], polar[2], polar[1]>>]
    /\ UNCHANGED <<toposes, heap, arrays>>

---------------------------------------------------------------------------
(* The observation pipeline *)

\* A planet's barycentric position and velocity at time t (the ephemeris)
planet(t) == << <<200000, 100000 * t, 30000>>, <<500, 0, 100 * t>> >>

\* body._observe_from_bcrs(observer) of a planet: the Astrometric position
\* of the planet from the observer, with the observer and the light time
\* attached.  The body owns the light-time iteration; the light time here
\* is t + 1 days.
observe_from_bcrs(O, o, n) ==
    [ICRS("Astrometric", n + 1, n + 2, O.jd) EXCEPT !.observer = o,
                                                    !.lighttime = O.jd + 1]

\* Barycentric.observe(body): body is "planet", or an "object" without
\* _observe_from_bcrs (an AttributeError).  The planet reads the
\* observer's position, velocity and time.
BarycentricObserve(o, body) ==
    /\ o \in DOMAIN heap
    /\ heap[o].cls = "Barycentric"
    /\ IF body = "object"
       THEN /\ last' = [NoLast EXCEPT !.op = "Barycentric.observe", !.self = o,
                                      !.arg = body, !.exc = "AttributeError"]
            /\ UNCHANGED <<heap, arrays>>
       ELSE /\ heap[o].velocity # 0
            /\ heap[o].jd # 0
            /\ LET O == heap[o]
                   n == Len(arrays)
                   b == planet(O.jd)
               IN  /\ arrays' = arrays \o <<VSub(b[1], arrays[O.position]),
                                            VSub(b[2], arrays[O.velocity])>>
                   /\ heap' = Append(heap, Made(observe_from_bcrs(O, o, n),
                                            "Barycentric.observe", o, 0))
                   /\ last' = [NoLast EXCEPT !.op = "Barycentric.observe",
                                             !.self = o, !.arg = body,
                                             !.ret = Len(heap) + 1]
    /\ UNCHANGED toposes

\* The threshold of Astrometric.apparent, 0.8, in hundredths
LimbThreshold == 80

\* Astrometric.apparent with limb_angle > 0.8 for limb_angle >= 0.8
include_earth_deflection_strict(geocentric, limb_angle) ==
    IF geocentric THEN FALSE ELSE limb_angle > LimbThreshold

\* Astrometric.apparent: include_earth_deflection, from observer.geocentric
\* and the limb angle (in hundredths) that compute_limb_angle returns
include_earth_deflection(geocentric, limb_angle) ==
    IF geocentric THEN FALSE ELSE limb_angle >= LimbThreshold

\* Astrometric.apparent without the copy: the kernels work on the array of
\* self.position itself
position_AU_in_place(own, fresh) == own

\* Astrometric.apparent: the array that add_deflection and add_aberration
\* work on, given the array of self.position and a fresh one: the copy
position_AU_copy(own, fresh) == fresh

\* Astrometric.apparent that attaches no observer
apparent_observer_unset(A) == 0

\* Astrometric.apparent: the observer attached to the Apparent position
apparent_observer(A) == A.observer

\* Astrometric.apparent, where limb_angle is the limb angle of the geometry
\* (what compute_limb_angle returns; it is called only for an observer that
\* is not geocentric).
\* An AttributeError comes from self.observer, observer.ephemeris, jd.tdb,
\* observer.velocity.AU_per_d or self.lighttime being absent; the copy it
\* may have worked on by then is dropped.
Apparent(a, limb_angle) ==
    /\ a \in DOMAIN heap
    /\ heap[a].cls = "Astrometric"
    /\ LET A == heap[a]
           o == A.observer
       IN  IF \/ o = 0
              \/ ~heap[o].ephemeris
              \/ A.jd = 0
              \/ heap[o].velocity = 0
              \/ A.lighttime = -1
           THEN /\ last' = [NoLast EXCEPT !.op = "apparent", !.self = a,
                                          !.exc = "AttributeError"]
                /\ UNCHANGED <<heap, arrays>>
           ELSE LET O == heap[o]
                       n == Len(arrays)
                       buf == position_AU_copy(A.position, n + 1)
                       flag == include_earth_deflection(O.geocentric, limb_angle)
                       deflected == add_deflection(arrays[A.position],
                                        arrays[O.position], tdb(A.jd), flag)
                       aberrated == add_aberration(deflected,
                                        arrays[O.velocity], A.lighttime)
                       obj == ICRS("Apparent", buf, 0, A.jd)
                   IN  /\ arrays' = [Append(arrays, arrays[A.position])
                                       EXCEPT ![buf] = aberrated]
                       /\ heap' = Append(heap,
                              Made([obj EXCEPT !.observer = apparent_observer(A)],
                                   "apparent", a, 0))
                       /\ last' = [NoLast EXCEPT
                              !.op = "apparent", !.self = a,
                              !.ret = Len(heap) + 1,
                              !.limb = limb_angle,
                              !.include = IF flag THEN "True" ELSE "False"]
    /\ UNCHANGED toposes

\* The forms of altaz's temperature_C= (None, 'standard', a number of
\* degrees) and pressure_mbar= ('standard', a number of 1/100000 mbar)
Arg(kind, val) == [kind |-> kind, val |-> val]

\* Apparent.altaz with a default: an observer that has a topos but no
\* altaz_rotation gets the identity rotation
altaz_lookup_default(A) ==
    IF A.observer = 0 \/ heap[A.observer].topos = 0
    THEN [ok |-> FALSE, topos |-> 0, R |-> <<>>]
    ELSE [ok |-> TRUE, topos |-> heap[A.observer].topos,
          R |-> IF heap[A.observer].altaz_rotation = <<>>
                THEN << <<1, 0, 0>>, <<0, 1, 0>>, <<0, 0, 1>> >>
                ELSE heap[A.observer].altaz_rotation]

\* Apparent.altaz: self.observer.topos and self.observer.altaz_rotation;
\* ok is FALSE when one of the attribute reads is an AttributeError
altaz_lookup(A) ==
    IF A.observer = 0 THEN [ok |-> FALSE, topos |-> 0, R |-> <<>>]
    ELSE LET O == heap[A.observer]
         IN  IF O.topos = 0 \/ O.altaz_rotation = <<>>
             THEN [ok |-> FALSE, topos |-> 0, R |-> <<>>]
             ELSE [ok |-> TRUE, topos |-> O.topos, R |-> O.altaz_rotation]

\* Apparent.altaz: whether the altitude goes through refract
refraction_applied(temperature_C) == temperature_C.kind # "None"

\* The temperature 'standard' stands for, in degrees C
StandardTemperature == 10

\* Apparent.altaz: the temperature handed to refract
refract_temperature(temperature_C) ==
    IF temperature_C.kind = "standard" THEN StandardTemperature
    ELSE temperature_C.val

\* Apparent.altaz with the sea-level pressure for 'standard', whatever
\* the elevation
refract_pressure_sea_level(pressure_mbar, elevation_m) ==
    IF pressure_mbar.kind = "standard" THEN StandardPressure(0)
    ELSE pressure_mbar.val

\* Apparent.altaz: the pressure handed to refract
refract_pressure(pressure_mbar, elevation_m) ==
    IF pressure_mbar.kind = "standard" THEN StandardPressure(elevation_m)
    ELSE pressure_mbar.val

\* earthlib.refract(alt_degrees, temperature_C, pressure_mbar), kept as the
\* expression it is applied to
refract(alt, temperature_C, pressure_mbar) ==
    [fn |-> "refract", alt |-> alt, temperature_C |-> temperature_C,
     pressure_mbar |-> pressure_mbar]

\* Apparent.altaz
Altaz(a, temperature_C, pressure_mbar) ==
    /\ a \in DOMAIN heap
    /\ heap[a].cls = "Apparent"
    /\ LET A == heap[a]
           found == altaz_lookup(A)
           here == [NoLast EXCEPT !.op = "altaz", !.self = a,
                                  !.arg = <<temperature_C, pressure_mbar>>]
       IN  IF ~found.ok
           THEN last' = [here EXCEPT !.exc = "ValueError"]
           ELSE LET position_AU == MatVec(found.R, arrays[A.position])
                    polar == to_polar(position_AU)
                    T == refract_temperature(temperature_C)
                    P == refract_pressure(pressure_mbar,
                                          toposes[found.topos].elevation)
                    refracted == refraction_applied(temperature_C)
                    alt == IF refracted THEN refract(polar[2], T, P) ELSE polar[2]
                IN  last' = [here EXCEPT
                        !.topos = found.topos, !.R = found.R,
                        !.polarIn = position_AU,
                        !.refract = IF refracted THEN <<polar[2], T, P>> ELSE <<>>,
                        !.out = <<alt, polar[3], polar[1]>>]
    /\ UNCHANGED <<toposes, heap, arrays>>

\* The targets of Geocentric.observe: a Topos (k: its index), which has a
\* gcrs method; an "object" with no gcrs attribute; an object whose gcrs
\* attribute is None ("gcrsNone")
Target(kind, k) == [kind |-> kind, k |-> k]

\* Geocentric.observe: what getattr(other, 'gcrs') and the test of its
\* result raise ("" when gcrs_method is a method)
observe_getattr(other) ==
    CASE other.kind = "object" -> "AttributeError"
      [] other.kind = "gcrsNone" -> "ValueError"
      [] OTHER -> ""

\* Geocentric.observe with the difference taken the other way round
observe_difference_reversed(g, own) == VSub(own, g)

\* Geocentric.observe: p and v, from the target's GCRS vector g and self's
observe_difference(g, own) == VSub(g, own)

\* Geocentric.observe: the observer attached to the Apparent position
observe_observer(s) == s

\* Geocentric.observe.  The Position that other.gcrs returns is a temporary
\* of the call.  self.velocity of None is an AttributeError.
GeocentricObserve(s, other) ==
    /\ s \in DOMAIN heap
    /\ heap[s].cls = "Geocentric"
    /\ other.kind = "Topos" => other.k \in DOMAIN toposes /\ heap[s].jd # 0
    /\ LET S == heap[s]
           here == [NoLast EXCEPT !.op = "Geocentric.observe", !.self = s,
                                  !.arg = other]
           exc == observe_getattr(other)
       IN  IF exc # ""
           THEN /\ last' = [here EXCEPT !.exc = exc]
                /\ UNCHANGED <<heap, arrays>>
           ELSE IF S.velocity = 0
           THEN /\ last' = [here EXCEPT !.exc = "AttributeError"]
                /\ UNCHANGED <<heap, arrays>>
           ELSE LET g == position_and_velocity(toposes[other.k], S.jd)
                       n == Len(arrays)
                       obj == ICRS("Apparent", n + 1, n + 2, S.jd)
                   IN  /\ arrays' = arrays \o
                              <<observe_difference(g[1], arrays[S.position]),
                                observe_difference(g[2], arrays[S.velocity])>>
                       /\ heap' = Append(heap,
                              Made([obj EXCEPT !.observer = observe_observer(s)],
                                   "Geocentric.observe", s, other.k))
                       /\ last' = [here EXCEPT !.ret = Len(heap) + 1]
    /\ UNCHANGED toposes

---------------------------------------------------------------------------
(* The whole library: every operation, each on a small set of inputs *)

Vec1 == <<1000, 2000, -500>>

Vec2 == <<-300, 0, 700>>

Vel1 == <<3, -1, 2>>

Vel2 == <<0, 4, -5>>

\* <<class, velocity, jd, ephemeris attached, topos attached>>: the
\* Barycentric position of a planet, an Apparent and a Geocentric position
\* built directly, a Geocentric position given a topos by its builder
PipelineBuilds ==
    { <<"Barycentric", Vel1, 1, TRUE, 0>>,
      <<"Apparent", <<>>, 1, FALSE, 0>>,
      <<"Geocentric", Vel1, 1, FALSE, 0>>,
      <<"Geocentric", Vel1, 1, FALSE, 1>> }

PipelineTargets == {Target("Topos", 1), Target("object", 0), Target("gcrsNone", 0)}

\* Subtraction is used on two Positions of one frame and one time
SameFrame(a, b) == heap[a].cls = heap[b].cls /\ heap[a].jd = heap[b].jd

\* The bound of a run: the call made leaves at most n Positions
Within(n) == Len(heap') <= n

Next ==
    \/ ToposInit("degrees", 3687, "Angle", 5313, 0)
    \/ \E b \in PipelineBuilds :
           Build(b[1], Vec1, b[2], b[3], b[4], b[5]) /\ Within(MaxPositions)
    \/ \E k \in DOMAIN toposes : ToposCall(k, 1) /\ Within(MaxPositions)
    \/ \E k \in DOMAIN toposes : ToposGcrs(k, 1) /\ Within(MaxPositions)
    \/ \E a, b \in DOMAIN heap :
           SameFrame(a, b) /\ Sub(a, b) /\ Within(MaxPositions)
    \/ \E a \in DOMAIN heap :
           heap[a].cls \in {"ICRS", "Apparent"} /\ Radec(a, Epoch("date", 0))
    \/ \E o \in DOMAIN heap :
           BarycentricObserve(o, "planet") /\ Within(MaxPositions)
    \/ \E a \in DOMAIN heap : Apparent(a, 80) /\ Within(MaxPositions)
    \/ \E a \in DOMAIN heap : Altaz(a, Arg("standard", 0), Arg("standard", 0))
    \/ \E s \in DOMAIN heap, other \in {Target("Topos", 1), Target("object", 0)} :
           GeocentricObserve(s, other) /\ Within(MaxPositions)

Spec == Init /\ [][Next]_vars

---------------------------------------------------------------------------
(* Claims about the whole library *)

\* The arrays a Position refers to
ArraysOf(P) == {P.position, P.velocity, P.rGCRS, P.vGCRS} \ {0}

\* No Topos with a horizon rotation is reachable from the Apparent position A
NoToposReachable(A) ==
    \/ A.observer = 0
    \/ heap[A.observer].topos = 0
    \/ heap[A.observer].altaz_rotation = <<>>

\* C4: Apparent.altaz() raises ValueError and returns nothing whenever the
\* Apparent position has no observer, or its observer has no topos, or its
\* observer has no altaz_rotation; whether the Apparent position was built
\* directly, returned by Astrometric.apparent() or returned by
\* Geocentric.observe().
C4_AltazNeedsTopos ==
    last.op = "altaz" /\ NoToposReachable(heap[last.self])
        => /\ last.exc = "ValueError"
           /\ last.out = <<>>
           /\ last.topos = 0
           /\ last.R = <<>>

\* altaz() has failed on an Apparent position that apparent() returned,
\* whose observer, a planet's Barycentric position, has no topos
C4_Witness ==
    /\ last.op = "altaz"
    /\ last.exc = "ValueError"
    /\ heap[last.self].origin[1] = "apparent"
    /\ heap[last.self].observer # 0
    /\ heap[heap[last.self].observer].topos = 0

\* C10: no operation changes a Position that existed before it: its
\* attributes (position, velocity, time, observer, topos, altaz_rotation,
\* lighttime, ...) and the arrays they refer to stay as they were; an
\* operation writes only the Position and the arrays it has just made.
C10_ExistingPositionsUntouched ==
    [][\A i \in DOMAIN heap :
          /\ i \in DOMAIN heap'
          /\ heap'[i] = heap[i]
          /\ \A r \in ArraysOf(heap[i]) : arrays'[r] = arrays[r]]_vars

\* apparent() has returned a Position whose vector, deflected and aberrated,
\* differs from the vector of the Astrometric position it came from
C10_Witness ==
    /\ last.op = "apparent"
    /\ last.ret # 0
    /\ heap[last.ret].position # heap[last.self].position
    /\ arrays[heap[last.ret].position] # arrays[heap[last.self].position]
    /\ heap[last.ret].observer = heap[last.self].observer

---------------------------------------------------------------------------
(* The Topos pipeline: Topos at t -> observe -> apparent -> altaz *)

\* <<latitude given as, latitude, longitude given as, longitude, elevation>>
ToposVariants ==
    { <<"degrees", 3687, "degrees", 5313, 0>>,
      <<"Angle", -9000, "Angle", 18000, 9100>> }

LimbAngles == {79, 80, 81}

Temperatures == {Arg("None", 0), Arg("standard", 0), Arg("num", 25)}

Pressures == {Arg("standard", 0), Arg("num", 90000000)}

NextApparent ==
    \/ \E v \in ToposVariants : ToposInit(v[1], v[2], v[3], v[4], v[5])
    \/ \E k \in DOMAIN toposes, t \in Times :
           ToposCall(k, t) /\ Within(MaxPositions)
    \/ Build("Barycentric", Vec1, Vel1, 1, TRUE, 0) /\ Within(MaxPositions)
    \/ \E o \in DOMAIN heap, body \in {"planet", "object"} :
           BarycentricObserve(o, body) /\ Within(MaxPositions)
    \/ \E a \in DOMAIN heap, limb \in LimbAngles :
           Apparent(a, limb) /\ Within(MaxPositions)
    \/ \E a \in DOMAIN heap, T \in Temperatures, P \in Pressures : Altaz(a, T, P)

SpecApparent == Init /\ [][NextApparent]_vars

---------------------------------------------------------------------------
(* The geocentric shortcut: Geocentric -> observe -> altaz *)

\* <<position, velocity, jd>> of the Geocentric positions built directly
GeocentricBuilds == { <<Vec2, Vel2, 2>>, <<Vec1, <<>>, 1>> }

NextGeocentric ==
    \/ \E v \in ToposVariants : ToposInit(v[1], v[2], v[3], v[4], v[5])
    \/ \E k \in DOMAIN toposes, t \in Times :
           ToposGcrs(k, t) /\ Within(MaxPositions)
    \/ \E b \in GeocentricBuilds :
           Build("Geocentric", b[1], b[2], b[3], FALSE, 0) /\ Within(MaxPositions)
    \/ \E s \in DOMAIN heap, other \in PipelineTargets :
           GeocentricObserve(s, other) /\ Within(MaxPositions)
    \/ \E a \in DOMAIN heap : Altaz(a, Arg("None", 0), Arg("standard", 0))

SpecGeocentric == Init /\ [][NextGeocentric]_vars

---------------------------------------------------------------------------
(* Topos construction alone *)

NextTopos ==
    \E latKind \in {"degrees", "Angle", "missing"}, lat \in ValidLatitudes,
       lon \in ValidLongitudes, elevation_m \in {0, 4550} :
        ToposInit(latKind, lat, "degrees", lon, elevation_m)

SpecTopos == Init /\ [][NextTopos]_vars

---------------------------------------------------------------------------
(* radec alone *)

MaxRadecPositions == 1

\* <<position, velocity, jd>>
RadecBuilds ==
    {Vec1, Vec2} \X {<<>>, Vel1} \X {0, 1, 2}

Epochs ==
    { Epoch("None", 0), Epoch("JulianDate", 1), Epoch("JulianDate", 2),
      Epoch("float", 1), Epoch("float", 2), Epoch("int", 1), Epoch("int", 2),
      Epoch("date", 0), Epoch("str", 0), Epoch("object", 0) }

NextRadec ==
    \/ \E b \in RadecBuilds :
           Build("ICRS", b[1], b[2], b[3], FALSE, 0) /\ Within(MaxRadecPositions)
    \/ \E a \in DOMAIN heap, e \in Epochs : Radec(a, e)

SpecRadec == Init /\ [][NextRadec]_vars

---------------------------------------------------------------------------
(* Subtraction alone *)

MaxSubPositions == 4

\* <<position, velocity>>, all at time 1
SubBuilds == { <<Vec1, Vel1>>, <<Vec2, Vel2>>, <<Vec2, <<>> >> }

NextSub ==
    \/ \E b \in SubBuilds :
           Build("ICRS", b[1], b[2], 1, FALSE, 0) /\ Within(MaxSubPositions)
    \/ \E a, b \in DOMAIN heap :
           SameFrame(a, b) /\ Sub(a, b) /\ Within(MaxSubPositions)

SpecSub == Init /\ [][NextSub]_vars

---------------------------------------------------------------------------
(* Claims about the Topos pipeline (SpecApparent) *)

\* C1: in Astrometric.apparent() the flag handed to add_deflection is False
\* whenever the observer is geocentric, whatever the limb angle; for an
\* observer that is not geocentric it is True exactly when the limb angle
\* is >= 0.8 (80 hundredths).
C1_DeflectionFlag ==
    last.op = "apparent" /\ last.exc = ""
        => LET O == heap[heap[last.self].observer]
           IN  /\ last.include \in {"True", "False"}
               /\ O.geocentric => last.include = "False"
               /\ ~O.geocentric => (last.include = "True" <=> last.limb >= 80)

\* apparent() was called for an observer that came from a Topos with the
\* limb angle at exactly 0.8, and Earth deflection was included
C1_Witness ==
    /\ last.op = "apparent"
    /\ last.exc = ""
    /\ ~heap[heap[last.self].observer].geocentric
    /\ last.limb = 80
    /\ last.include = "True"

\* The Position a Topos evaluation returned, from which Position a came
\* through observe() and apparent(); 0 if a did not come that way
PipelineRoot(a) ==
    IF heap[a].origin[1] # "apparent" THEN 0
    ELSE LET p == heap[a].origin[2]
         IN  IF heap[p].origin[1] # "Barycentric.observe" THEN 0
             ELSE LET b == heap[p].origin[2]
                  IN  IF heap[b].origin[1] = "Topos.__call__" THEN b ELSE 0

\* C7: apparent() on an Astrometric position P returns a new Apparent
\* position with P's time and P's observer; so altaz() at the end of
\* Topos k at t -> observe -> apparent resolves Topos k and the rotation
\* that Topos._altaz_rotation gives for k at t.
C7_ApparentKeepsObserver ==
    /\ last.op = "apparent" /\ last.exc = ""
          => /\ last.ret \notin {0, last.self, heap[last.self].observer}
             /\ heap[last.ret].cls = "Apparent"
             /\ heap[last.ret].jd = heap[last.self].jd
             /\ heap[last.ret].observer = heap[last.self].observer
    /\ last.op = "altaz" /\ PipelineRoot(last.self) # 0
          => LET B == heap[PipelineRoot(last.self)]
             IN  /\ last.exc = ""
                 /\ last.topos = B.origin[2]
                 /\ last.R = altaz_rotation(toposes[B.origin[2]], B.origin[3])

\* altaz() has returned at the end of the pipeline that began with a Topos
\* evaluated at time 2
C7_Witness ==
    /\ last.op = "altaz"
    /\ last.exc = ""
    /\ PipelineRoot(last.self) # 0
    /\ heap[PipelineRoot(last.self)].origin[3] = 2
    /\ last.topos # 0

\* 1010 exp(-elevation_m / 9100) mbar to within 1 mbar, in 1/100000 mbar:
\* 1010 mbar at 0 m, 371.56 mbar at 9100 m
IsStandardPressure(elevation_m, p) ==
    CASE elevation_m = 0 -> p = 101000000
      [] elevation_m = 9100 -> 37100000 <= p /\ p <= 37200000
      [] OTHER -> FALSE

\* C5: altaz() applies refract exactly when a temperature is given.  With
\* none the altitude is the theta of to_polar, whatever the pressure; with
\* one, refract gets 10 degrees for 'standard' and the caller's value
\* otherwise, and 1010 exp(-elevation_m / 9100) mbar for 'standard'
\* pressure (1010 mbar at 0 m) and the caller's pressure otherwise.
C5_Refraction ==
    last.op = "altaz" /\ last.exc = ""
        => LET T == last.arg[1]
               P == last.arg[2]
               A == heap[last.self]
               O == heap[A.observer]
               elevation_m == toposes[O.topos].elevation
               unrefracted ==
                   to_polar(MatVec(O.altaz_rotation, arrays[A.position]))[2]
           IN  /\ (T.kind = "None") <=> (last.refract = <<>>)
               /\ T.kind = "None" => last.out[1] = unrefracted
               /\ T.kind # "None" =>
                    /\ last.refract[1] = unrefracted
                    /\ last.refract[2] = (IF T.kind = "standard" THEN 10 ELSE T.val)
                    /\ IF P.kind = "standard"
                       THEN IsStandardPressure(elevation_m, last.refract[3])
                       ELSE last.refract[3] = P.val
                    /\ last.out[1] = refract(last.refract[1], last.refract[2],
                                             last.refract[3])

\* altaz('standard', 'standard') has returned for a Topos at 9100 m
C5_Witness ==
    /\ last.op = "altaz"
    /\ last.exc = ""
    /\ last.arg[1].kind = "standard"
    /\ last.arg[2].kind = "standard"
    /\ toposes[last.topos].elevation = 9100
    /\ last.refract # <<>>

---------------------------------------------------------------------------
(* Claims about the geocentric shortcut (SpecGeocentric) *)

\* C3: Geocentric.observe(other) raises ValueError, and returns no Apparent
\* position, for every target that has no gcrs.
C3_UnsupportedTargetIsValueError ==
    last.op = "Geocentric.observe" /\ last.arg.kind \in {"object", "gcrsNone"}
        => last.exc = "ValueError" /\ last.ret = 0

---------------------------------------------------------------------------
(* Claims about Topos construction (SpecTopos) *)

\* C9: the up, north and west of every Topos have unit length (625 over
\* 25 squared) and are orthogonal to each other.
C9_ToposFrameOrthonormal ==
    \A k \in DOMAIN toposes :
        LET T == toposes[k]
        IN  /\ Dot(T.up, T.up) = 625
            /\ Dot(T.north, T.north) = 625
            /\ Dot(T.west, T.west) = 625
            /\ Dot(T.up, T.north) = 0
            /\ Dot(T.up, T.west) = 0
            /\ Dot(T.north, T.west) = 0

\* A Topos at the south pole, on the antimeridian
C9_Witness ==
    \E k \in DOMAIN toposes :
        toposes[k].latitude = -9000 /\ toposes[k].longitude = 18000

---------------------------------------------------------------------------
(* Claims about radec (SpecRadec) *)

\* C6, as amended: radec(epoch) raises ValueError exactly when the epoch
\* is not None and is none of a JulianDate, a float, the string "date" (an
\* int is rejected); for a JulianDate or a float it rotates the position
\* by the M of that time before to_polar; for "date" it rotates by the M
\* of the Position's own time when the Position has one, and raises
\* AttributeError when it has none; with no epoch it does not rotate; a
\* call that raises returns nothing.
C6_RadecEpochFloat ==
    last.op = "radec"
        => LET e == last.arg
               A == heap[last.self]
               p == arrays[A.position]
           IN  /\ (last.exc = "ValueError")
                     <=> (e.kind \notin {"None", "JulianDate", "float", "date"})
               /\ e.kind \in {"JulianDate", "float"}
                     => /\ last.exc = ""
                        /\ last.R = M(e.tt)
                        /\ last.polarIn = MatVec(M(e.tt), p)
               /\ e.kind = "date" /\ A.jd # 0
                     => /\ last.exc = ""
                        /\ last.R = M(A.jd)
                        /\ last.polarIn = MatVec(M(A.jd), p)
               /\ e.kind = "date" /\ A.jd = 0 => last.exc = "AttributeError"
               /\ e.kind = "None"
                     => /\ last.exc = ""
                        /\ last.R = <<>>
                        /\ last.polarIn = p
               /\ last.exc # "" => last.out = <<>> /\ last.polarIn = <<>>
               /\ last.exc = ""
                     => last.out = <<to_polar(last.polarIn)[3],
                                     to_polar(last.polarIn)[2],
                                     to_polar(last.polarIn)[1]>>

\* radec was given an int and raised ValueError
C6_Witness ==
    /\ last.op = "radec"
    /\ last.arg.kind = "int"
    /\ last.exc = "ValueError"

\* C6, as claimed: radec(epoch) raises ValueError exactly when the epoch is
\* none of a time object, a numeric terrestrial time, "date"; for each of
\* the three it rotates by that epoch's M (the Position's own time for
\* "date"); with no epoch it does not rotate.
C6_RadecEpochNumeric ==
    last.op = "radec"
        => LET e == last.arg
               A == heap[last.self]
               p == arrays[A.position]
           IN  /\ (last.exc = "ValueError")
                     <=> (e.kind \notin {"None", "JulianDate", "float", "int", "date"})
               /\ e.kind \in {"JulianDate", "float", "int"}
                     => last.polarIn = MatVec(M(e.tt), p)
               /\ e.kind = "date" /\ A.jd # 0
                     => last.polarIn = MatVec(M(A.jd), p)
               /\ e.kind = "None" => last.polarIn = p

---------------------------------------------------------------------------
(* Claims about subtraction (SpecSub) *)

\* C2: for Positions A and B of one time that both have a velocity,
\* A - (A - B) has the position vector and the velocity vector of B.
C2_SubtractTwiceGivesBack ==
    \A r \in DOMAIN heap :
        (/\ heap[r].origin[1] = "__sub__"
         /\ heap[heap[r].origin[3]].origin[1] = "__sub__"
         /\ heap[heap[r].origin[3]].origin[2] = heap[r].origin[2])
            => LET A == heap[heap[r].origin[2]]
                   B == heap[heap[heap[r].origin[3]].origin[3]]
               IN  (A.velocity # 0 /\ B.velocity # 0 /\ A.jd = B.jd)
                       => /\ arrays[heap[r].position] = arrays[B.position]
                          /\ heap[r].velocity # 0
                          /\ arrays[heap[r].velocity] = arrays[B.velocity]

=============================================================================
